---- MODULE Spec2Model ----
(***************************************************************************)
(* Model of forge-runner's single-test execution engine                    *)
(* (crates/forge-runner/src/running.rs): the cancellable work units        *)
(* run_test / run_fuzz_test, the executor run_test_case, the runtime       *)
(* extension chain it assembles, and extract_test_case_summary.            *)
(*                                                                         *)
(* Texts (error messages) are sequences of string tokens, so that          *)
(* formatting and replacement are operations on them.  Option<T> is a set  *)
(* with at most one element ({} is None, {v} is Some(v)).                  *)
(***************************************************************************)
EXTENDS Integers, Sequences, FiniteSets, TLC

\* Longest hint sequence of the compiled program body.
MaxHints == 1

\* Longest instruction stream given to build_hints_dict, and the most hints
\* one instruction carries.
MaxInstructions == 2
MaxInstructionHints == 2

\* Most reads one unit's run sends to its fork state reader.
MaxForkReads == 2

\* The work units spawned concurrently on the blocking pool.  The units
\* share only the two cancellation signals, so two of them show every
\* pairwise interaction.
Units == {1, 2}

(***************************************************************************)
(* Inputs                                                                  *)
(***************************************************************************)

\* The five runtime layers, each standing also for "a hint recognised by
\* that layer only"; "Unknown" is a hint no layer recognises.
Layers ==
    { "ForgeExtension", "CallToBlockifierExtension", "IORuntimeExtension",
      "CheatableStarknetRuntimeExtension", "StarknetRuntime" }

HintKinds == Layers \cup {"Unknown"}

\* How the program body ends when no hint fails: it returns, it panics with
\* a payload, or the VM faults.
Endings == {"Return", "Panic", "VmFault"}

SeqsUpTo(S, n) == UNION { [1..k -> S] : k \in 0..n }

\* CairoProgram: the hints of the body in execution order and its ending.
Programs == [hints : SeqsUpTo(HintKinds, MaxHints), ending : Endings]

\* Defects of the VM/runner collaborators that the executor guards against.
Defects == {"None", "BuildContext", "BuildRunner", "ProgramBase", "InitialFp"}

\* Argument vectors of fuzz trials (run_test always passes vec![]).
FuzzArgs == { <<1>> }

ForkConfigs == { [url |-> "http://rpc", block_number |-> 7] }

\* TestCaseRunnable of unit u: name, available_gas, fork_config.
Cases(u) ==
    [name : {u}, available_gas : {{}, {100}}, fork_config : {{}} \cup { {f} : f \in ForkConfigs }]

\* The units are interchangeable, so the initial states list each combination
\* of unit inputs once, in the order of this rank.
InputRank(k, c) ==
    (IF k = "fuzz" THEN 4 ELSE 0) + (IF c.available_gas # {} THEN 2 ELSE 0)
        + (IF c.fork_config # {} THEN 1 ELSE 0)

\* What the remote network answers to get_block_info of a fork reader.
NetAnswers == {"Ok", "Err"}

(***************************************************************************)
(* State                                                                   *)
(***************************************************************************)
VARIABLES
    casm_program,        \* Arc<CairoProgram>, shared read-only by all units
    defect,              \* defect of the shared VM/runner collaborators
    kind,                \* kind[u]: "test" (run_test) or "fuzz" (run_fuzz_test)
    args,                \* args[u]: the argument vector of the unit
    case,                \* case[u]: TestCaseRunnable
    send_closed,         \* send.is_closed()
    fuzzing_send_closed, \* fuzzing_send.is_closed()
    cancel_pc,           \* history: pc at the moment send was closed
    pc,                  \* pc[u]: position of the unit's closure
    reads,               \* reads[u]: the unit's reads of send.is_closed(), in order
    run_test_case_args,  \* run_test_case_args[u]: the args run_test_case was called with
    trace,               \* trace[u]: executor phases performed, in order
    state_reader,        \* state_reader[u]: ExtendedStateReader of the run
    block_info,          \* block_info[u]: result of get_block_info
    resources,           \* resources[u]: the run's ExecutionResources counter
    state_diff,          \* state_diff[u]: writes in the run's CachedState
    cheatnet_state,      \* cheatnet_state[u]: entries of the run's CheatnetState
    hint_log,            \* hint_log[u]: per hint, the layers it went through
    run_result,          \* run_result[u]: Result<RunResultWithInfo>
    outcome              \* outcome[u]: what the JoinHandle yields

\* State of build_hints_dict, the instruction/hint indexer.
VARIABLES
    instructions,        \* the instruction stream given to build_hints_dict
    indexed,             \* how many instructions the for loop has consumed
    hint_offset,         \* the running offset
    hints_dict,          \* HashMap<usize, Vec<HintParams>>
    string_to_hint       \* HashMap<String, Hint>

\* State of sncast's parse_scarb_config (crates/cast/src/helpers/scarb_utils.rs).
VARIABLES
    profile,             \* &Option<String>
    package_metadata,    \* Option<&PackageMetadata>
    cast_config          \* Result<CastConfig>, None before the call

\* State of the fork adapter: the on-disk cache, the network and the reads
\* the units' runs send to their fork state readers.
VARIABLES
    fork_cache,          \* fork_cache[dir]: the entries stored under a cache directory
    net_lookups,         \* net_lookups[key]: network lookups issued for the key
    fork_pc,             \* fork_pc[u]: "idle", "miss" (cache missed), "fetched"
    fork_key,            \* fork_key[u]: the key of the read in flight
    read_log             \* read_log[u]: the completed reads, in order

inputs == <<casm_program, defect, kind, args, case>>
signals == <<send_closed, fuzzing_send_closed, cancel_pc>>
execution == <<run_test_case_args, trace, state_reader, block_info, resources, state_diff, cheatnet_state,
               hint_log, run_result>>
units == <<inputs, signals, pc, reads, execution, outcome>>
indexer == <<instructions, indexed, hint_offset, hints_dict, string_to_hint>>

\* What the work units never touch.
scarb == <<profile, package_metadata, cast_config>>
fork == <<fork_cache, net_lookups, fork_pc, fork_key, read_log>>
apart == <<indexer, scarb, fork>>
vars == <<units, apart>>

(***************************************************************************)
(* Values                                                                  *)
(***************************************************************************)

\* TestCaseSummary<Single>
Skipped == [tag |-> "Skipped"]
Passed(name, arguments, gas) ==
    [tag |-> "Passed", name |-> name, arguments |-> arguments, gas |-> gas]
Failed(name, msg, arguments) ==
    [tag |-> "Failed", name |-> name, msg |-> msg, arguments |-> arguments]

\* Result<_, _> values and a panicking closure.
Ok(v) == [tag |-> "Ok", val |-> v]
Err(e) == [tag |-> "Err", err |-> e]
Panicked(m) == [tag |-> "Panicked", msg |-> m]
None == [tag |-> "None"]

\* HashMap: the empty map and insert (a later insert replaces the value).
EmptyMap == [k \in {} |-> {}]
Insert(map, key, value) ==
    [k \in DOMAIN map \cup {key} |-> IF k = key THEN value ELSE map[k]]

\* RunnerError
CairoRunError(e) == [variant |-> "CairoRunError", text |-> e]

\* The text of ensure!'s error, running.rs line 232 (without the
\* backquotes around available_gas, which a TLA+ string cannot hold).
AvailableGasMsg == << "\n    ", "Attribute available_gas is not supported", "\n" >>

\* Texts of the collaborators' errors.
ForkErrorText == << "Unable to get block with tx hashes from fork" >>
BuildRunnerErrorText == << "Failed to build CairoRunner" >>
UnknownHintText ==
    << "Got an exception while executing a hint:", " Custom Hint Error: ", "Unknown hint" >>
VmFaultText == << "Couldn't compute operand op1. Unknown value for memory cell" >>
ContextPanicText == << "called Result::unwrap() on an Err value" >>
ProgramBasePanicText ==
    << "The program_base field should be initialized after running the entry point." >>
InitialFpPanicText ==
    << "The initial_fp field should be initialized after running the entry point." >>

\* Panic payload of a panicking body: the felt of 'call failed'.
PanicData == << "0x63616c6c206661696c6564" >>

(***************************************************************************)
(* Runtime extension chain                                                 *)
(***************************************************************************)

\* The chain with the IO layer nested outside the call-dispatch layer.
ForgeRuntimeChainSwapped ==
    << "ForgeExtension", "IORuntimeExtension", "CallToBlockifierExtension",
       "CheatableStarknetRuntimeExtension", "StarknetRuntime" >>

\* The chain run_test_case nests, outermost layer first.
ForgeRuntimeChain ==
    << "ForgeExtension", "CallToBlockifierExtension", "IORuntimeExtension",
       "CheatableStarknetRuntimeExtension", "StarknetRuntime" >>

\* A layer recognises exactly the hints made for it.
Recognizes(layer, hint) == layer = hint

\* ExtendedRuntime::execute_hint from layer i of the chain: the layers the
\* hint enters, in order, and the layer that services it ("none" when the
\* innermost layer does not recognise it either).
RECURSIVE ExecuteHint(_, _, _)
ExecuteHint(chain, i, hint) ==
    IF i > Len(chain)
    THEN [path |-> << >>, handler |-> "none"]
    ELSE IF Recognizes(chain[i], hint)
         THEN [path |-> << chain[i] >>, handler |-> chain[i]]
         ELSE LET inner == ExecuteHint(chain, i + 1, hint)
              IN  [path |-> << chain[i] >> \o inner.path, handler |-> inner.handler]

\* Resources one serviced Starknet syscall adds to the handler's counter,
\* resources of a nested call's callee, gas of one storage write.
SyscallResources == 10
CalleeResources == 100
StateDiffGas == 1000

\* The state of a VM run: whether it still runs without error, the error
\* text, the hints dispatched, and what the handlers accumulated.
VmStart(res0, writes0) ==
    [status |-> "Ok", err |-> << >>, log |-> << >>, resources |-> res0,
     writes |-> writes0, cheats |-> 0, steps |-> 0]

\* One hint of the body: dispatched from the outermost layer; the servicing
\* layer's effect on the run-scoped state, or a hint error when no layer
\* services it.
HintEffect(st, chain, hint) ==
    LET d == ExecuteHint(chain, 1, hint)
        logged == [st EXCEPT !.log = Append(@, [hint |-> hint, path |-> d.path,
                                               handler |-> d.handler]),
                             !.steps = @ + 1]
    IN  IF d.handler = "none"
        THEN [logged EXCEPT !.status = "Err", !.err = UnknownHintText]
        ELSE IF d.handler = "StarknetRuntime"
        THEN [logged EXCEPT !.resources = @ + SyscallResources, !.writes = @ + 1]
        ELSE IF d.handler = "CallToBlockifierExtension"
        THEN [logged EXCEPT !.resources = @ + CalleeResources]
        ELSE IF d.handler = "CheatableStarknetRuntimeExtension"
        THEN [logged EXCEPT !.cheats = @ + 1]
        ELSE logged

RECURSIVE RunHints(_, _, _, _)
RunHints(st, chain, hints, i) ==
    IF i > Len(hints) \/ st.status = "Err"
    THEN st
    ELSE RunHints(HintEffect(st, chain, hints[i]), chain, hints, i + 1)

\* casm_run::run_function_with_runner: the VM runs the body to its end or
\* to the first error; a run is a function of the program and the chain.
RunFunctionWithRunner(chain, program, res0, writes0) ==
    LET st == RunHints(VmStart(res0, writes0), chain, program.hints, 1)
    IN  IF st.status = "Ok" /\ program.ending = "VmFault"
        THEN [st EXCEPT !.status = "Err", !.err = VmFaultText]
        ELSE st

(***************************************************************************)
(* The executor, run_test_case                                             *)
(***************************************************************************)

WorkspaceRoot == "workspace_root"
CacheDir == "CACHE_DIR"

\* A fork state reader made without a cache directory.
GetForkStateReaderNoCache(workspace_root, fork_config) ==
    { [url |-> f.url, block_id |-> f.block_number, cache_dir |-> << >>] : f \in fork_config }

\* A fork state reader pinned to the block after the configured one.
GetForkStateReaderNextBlock(workspace_root, fork_config) ==
    { [url |-> f.url, block_id |-> f.block_number + 1,
       cache_dir |-> << workspace_root, CacheDir >>] : f \in fork_config }

\* get_fork_state_reader: Some(ForkStateReader) exactly for Some(fork_config).
GetForkStateReader(workspace_root, fork_config) ==
    { [url |-> f.url, block_id |-> f.block_number,
       cache_dir |-> << workspace_root, CacheDir >>] : f \in fork_config }

\* ExtendedStateReader::get_block_info: the default block info without a
\* fork reader; with one, what the network answers.
GetBlockInfo(reader, net) ==
    IF reader.fork_state_reader = {}
    THEN Ok([source |-> "default"])
    ELSE IF net = "Err"
         THEN Err(ForkErrorText)
         ELSE Ok([source |-> "fork"])

\* run_test_case without its ensure!.
EnsureAvailableGasOmitted(c) == Ok("unit")

\* ensure!(case.available_gas.is_none(), ...)
EnsureAvailableGas(c) ==
    IF c.available_gas = {} THEN Ok("unit") ELSE Err(AvailableGasMsg)

\* run_test_case checking available_gas after its state reader is set up.
RunTestCaseSetupValidateLast(c, net) ==
    LET reader == [tag |-> "ExtendedStateReader",
                   dict_state_reader |-> "build_testing_state",
                   fork_state_reader |-> GetForkStateReader(WorkspaceRoot, c.fork_config)]
        info == GetBlockInfo(reader, net)
        built == << "BuildEntryCode", "AssembleStream", "IndexHints", "StateReader" >>
    IN  IF info.tag = "Err"
        THEN [trace |-> built, state_reader |-> reader, block_info |-> info, result |-> info]
        ELSE [trace |-> built \o << "Validate" >>, state_reader |-> reader,
              block_info |-> info,
              result |-> IF EnsureAvailableGas(c).tag = "Err"
                         THEN EnsureAvailableGas(c) ELSE None]

\* run_test_case, lines 230-257: validation, entry code, instruction
\* stream, hint indexes, state reader and its block info.
RunTestCaseSetup(c, net) ==
    IF EnsureAvailableGas(c).tag = "Err"
    THEN [trace |-> << "Validate" >>, state_reader |-> None, block_info |-> None,
          result |-> EnsureAvailableGas(c)]
    ELSE LET reader == [tag |-> "ExtendedStateReader",
                        dict_state_reader |-> "build_testing_state",
                        fork_state_reader |->
                            GetForkStateReader(WorkspaceRoot, c.fork_config)]
             info == GetBlockInfo(reader, net)
         IN  [trace |-> << "Validate", "BuildEntryCode", "AssembleStream", "IndexHints",
                           "StateReader" >>,
              state_reader |-> reader,
              block_info |-> info,
              result |-> IF info.tag = "Err" THEN info ELSE None]

\* build_context: EntryPointExecutionContext::new(...).unwrap()
BuildContext(info, dfct) ==
    IF dfct = "BuildContext"
    THEN Panicked(ContextPanicText)
    ELSE Ok([block_context |-> info])

\* A resource counter that goes on from the sibling units' counters.
NewExecutionResourcesShared(u) ==
    LET v == CHOOSE w \in Units : w # u IN resources[v]

\* ExecutionResources::default(): the run's own counter, zeroed.
NewExecutionResources(u) == 0

\* A state overlay that holds the sibling units' writes.
NewCachedStateShared(u) ==
    LET v == CHOOSE w \in Units : w # u IN state_diff[v]

\* CachedState::from(state_reader): the run's own overlay, without writes.
NewCachedState(u) == 0

\* casm_run::build_runner
BuildRunner(dfct) ==
    IF dfct = "BuildRunner" THEN Err(BuildRunnerErrorText) ELSE Ok("runner")

\* The VM's own resources: the steps of entry code, body and footer.
VmResources(a, vm) == Len(a) + vm.steps + 2

\* finalize adding the VM's resources with those of the inner calls, which
\* the handler's counter holds already.
FinalizeWithInnerCalls(a, vm, dfct) ==
    IF dfct = "ProgramBase" THEN Panicked(ProgramBasePanicText)
    ELSE IF dfct = "InitialFp" THEN Panicked(InitialFpPanicText)
    ELSE Ok(vm.resources + (VmResources(a, vm) + vm.resources))

\* finalize taking a missing program_base or initial_fp for granted.
FinalizeUnchecked(a, vm, dfct) == Ok(vm.resources + VmResources(a, vm))

\* finalize: the two expect()s, then the VM's own resources are added to
\* the syscall handler's counter.
Finalize(a, vm, dfct) ==
    IF dfct = "ProgramBase" THEN Panicked(ProgramBasePanicText)
    ELSE IF dfct = "InitialFp" THEN Panicked(InitialFpPanicText)
    ELSE Ok(vm.resources + VmResources(a, vm))

\* A return value read as a success whatever the body did.
HandleMainReturnValueSuccess(program) == [tag |-> "Success", data |-> << >>]

\* SierraCasmRunner::handle_main_return_value
HandleMainReturnValue(program) ==
    IF program.ending = "Panic"
    THEN [tag |-> "Panic", data |-> PanicData]
    ELSE [tag |-> "Success", data |-> << >>]

\* calculate_used_gas(block_context, state, resources)
CalculateUsedGas(res, writes) == res + StateDiffGas * writes

\* A VM error wrapped in another variant of RunnerError.
WrapRunErrorOtherVariant(err) == Err([variant |-> "FailedGasCalculation", text |-> err])

\* The Err arm of the match on run_function_with_runner's result, line 356.
WrapRunError(err) == Err(CairoRunError(err))

\* run_test_case finalizing the run on the Err arm of its match as well.
RunTestCaseRunFinalizingFaults(res0, writes0, a, program, dfct, info) ==
    LET ctx == BuildContext(info, dfct)
        runner == BuildRunner(dfct)
        vm == RunFunctionWithRunner(ForgeRuntimeChain, program, res0, writes0)
        fin == Finalize(a, vm, dfct)
        idle == [panic |-> {}, result |-> None, resources |-> 0, writes |-> 0,
                 cheats |-> 0, log |-> << >>]
    IN  IF ctx.tag = "Panicked"
        THEN [idle EXCEPT !.panic = {ctx.msg}] @@ [trace |-> << "BuildContext" >>]
        ELSE IF runner.tag = "Err"
        THEN [idle EXCEPT !.result = runner]
             @@ [trace |-> << "BuildContext", "BuildRuntime", "InitializeVM" >>]
        ELSE IF fin.tag = "Panicked"
        THEN [panic |-> {fin.msg}, result |-> None,
              resources |-> vm.resources, writes |-> vm.writes, cheats |-> vm.cheats,
              log |-> vm.log,
              trace |-> << "BuildContext", "BuildRuntime", "InitializeVM", "Run",
                           "Finalize" >>]
        ELSE IF vm.status = "Err"
        THEN [panic |-> {},
              result |-> Ok([run_result |-> WrapRunError(vm.err),
                             gas_used |-> CalculateUsedGas(fin.val, vm.writes)]),
              resources |-> fin.val, writes |-> vm.writes, cheats |-> vm.cheats,
              log |-> vm.log,
              trace |-> << "BuildContext", "BuildRuntime", "InitializeVM", "Run",
                           "Finalize", "Gas" >>]
        ELSE [panic |-> {},
              result |-> Ok([run_result |-> Ok(HandleMainReturnValue(program)),
                             gas_used |-> CalculateUsedGas(fin.val, vm.writes)]),
              resources |-> fin.val, writes |-> vm.writes, cheats |-> vm.cheats,
              log |-> vm.log,
              trace |-> << "BuildContext", "BuildRuntime", "InitializeVM", "Run",
                           "Finalize", "ExtractResult", "Gas" >>]

\* run_test_case, lines 259-367, for the block info read before, with the
\* resource counter and the state overlay it created.
RunTestCaseRun(res0, writes0, a, program, dfct, info) ==
    LET ctx == BuildContext(info, dfct)
        runner == BuildRunner(dfct)
        vm == RunFunctionWithRunner(ForgeRuntimeChain, program, res0, writes0)
        fin == Finalize(a, vm, dfct)
        idle == [panic |-> {}, result |-> None, resources |-> 0, writes |-> 0,
                 cheats |-> 0, log |-> << >>]
    IN  IF ctx.tag = "Panicked"
        THEN [idle EXCEPT !.panic = {ctx.msg}] @@ [trace |-> << "BuildContext" >>]
        ELSE IF runner.tag = "Err"
        THEN [idle EXCEPT !.result = runner]
             @@ [trace |-> << "BuildContext", "BuildRuntime", "InitializeVM" >>]
        ELSE IF vm.status = "Err"
        THEN [panic |-> {},
              result |-> Ok([run_result |-> WrapRunError(vm.err),
                             gas_used |-> CalculateUsedGas(vm.resources, vm.writes)]),
              resources |-> vm.resources, writes |-> vm.writes, cheats |-> vm.cheats,
              log |-> vm.log,
              trace |-> << "BuildContext", "BuildRuntime", "InitializeVM", "Run", "Gas" >>]
        ELSE IF fin.tag = "Panicked"
        THEN [panic |-> {fin.msg}, result |-> None,
              resources |-> vm.resources, writes |-> vm.writes, cheats |-> vm.cheats,
              log |-> vm.log,
              trace |-> << "BuildContext", "BuildRuntime", "InitializeVM", "Run",
                           "Finalize" >>]
        ELSE [panic |-> {},
              result |-> Ok([run_result |-> Ok(HandleMainReturnValue(program)),
                             gas_used |-> CalculateUsedGas(fin.val, vm.writes)]),
              resources |-> fin.val, writes |-> vm.writes, cheats |-> vm.cheats,
              log |-> vm.log,
              trace |-> << "BuildContext", "BuildRuntime", "InitializeVM", "Run",
                           "Finalize", "ExtractResult", "Gas" >>]

(***************************************************************************)
(* extract_test_case_summary                                               *)
(***************************************************************************)

\* error.to_string().replace(" Custom Hint Error: ", "\n    ")
ReplaceCustomHintError(text) ==
    [i \in DOMAIN text |-> IF text[i] = " Custom Hint Error: " THEN "\n    " ELSE text[i]]

\* format!("\n    {}\n", ...)
FormatCairoRunError(text) == << "\n    " >> \o ReplaceCustomHintError(text) \o << "\n" >>

\* The felts a payload decodes to as short strings.
DecodeFelt(felt) == IF felt = "0x63616c6c206661696c6564" THEN "call failed" ELSE "?"

\* The message of a panicking run: each felt of the payload with its
\* decoded short string.
PanicMsg(data) ==
    << "\n    " >> \o [i \in DOMAIN data |-> << data[i], DecodeFelt(data[i]) >>] \o << "\n" >>

\* TestCaseSummary::from_run_result_and_info
FromRunResultAndInfo(value, c, a, gas) ==
    IF value.tag = "Success"
    THEN Passed(c.name, a, gas)
    ELSE Failed(c.name, PanicMsg(value.data), a)

\* extract_test_case_summary propagating the executor's error.
ExtractTestCaseSummaryPropagating(result, c, a) ==
    IF result.tag = "Ok"
    THEN LET info == result.val
         IN  IF info.run_result.tag = "Ok"
             THEN Ok(FromRunResultAndInfo(info.run_result.val, c, a, info.gas_used))
             ELSE IF info.run_result.err.variant = "CairoRunError"
                  THEN Ok(Failed(c.name, FormatCairoRunError(info.run_result.err.text), a))
                  ELSE Err(info.run_result.err)
    ELSE result

\* extract_test_case_summary without its CairoRunError arm: every
\* RunnerError is bailed out.
ExtractTestCaseSummaryBailing(result, c, a) ==
    IF result.tag = "Ok"
    THEN LET info == result.val
         IN  IF info.run_result.tag = "Ok"
             THEN Ok(FromRunResultAndInfo(info.run_result.val, c, a, info.gas_used))
             ELSE Err(info.run_result.err)
    ELSE Ok(Failed(c.name, result.err, a))

\* extract_test_case_summary reporting an executor error as Ignored.
ExtractTestCaseSummaryIgnoring(result, c, a) ==
    IF result.tag = "Ok"
    THEN LET info == result.val
         IN  IF info.run_result.tag = "Ok"
             THEN Ok(FromRunResultAndInfo(info.run_result.val, c, a, info.gas_used))
             ELSE IF info.run_result.err.variant = "CairoRunError"
                  THEN Ok(Failed(c.name, FormatCairoRunError(info.run_result.err.text), a))
                  ELSE Err(info.run_result.err)
    ELSE Ok([tag |-> "Ignored"])

\* extract_test_case_summary(run_result, case, args)
ExtractTestCaseSummary(result, c, a) ==
    IF result.tag = "Ok"
    THEN LET info == result.val
         IN  IF info.run_result.tag = "Ok"
             THEN Ok(FromRunResultAndInfo(info.run_result.val, c, a, info.gas_used))
             ELSE IF info.run_result.err.variant = "CairoRunError"
                  THEN Ok(Failed(c.name, FormatCairoRunError(info.run_result.err.text), a))
                  ELSE Err(info.run_result.err)
    ELSE Ok(Failed(c.name, result.err, a))

(***************************************************************************)
(* build_hints_dict                                                        *)
(***************************************************************************)

\* Hint values: two variants, each with the cell it writes to.
Hints == [variant : {"AllocSegment", "TestLessThan"}, dst : {0}]

\* Instruction: its hints and the size of its body, 1 or 2 words (an
\* instruction with an immediate takes two).
Instructions == [hints : SeqsUpTo(Hints, MaxInstructionHints), op_size : {1, 2}]

\* format!("{hint:?}"): the derived Debug text of the hint.
DebugFormat(hint) == << hint.variant, " { dst: ", hint.dst, " }" >>

\* hint_to_hint_params: the HintParams whose code is the hint's Debug text.
HintToHintParams(hint) ==
    [code |-> DebugFormat(hint), accessible_scopes |-> << >>]

\* An inner loop that registers the first hint of the instruction only.
RegisterFirstHintOnly(map, hints, i) ==
    IF hints = << >> THEN map ELSE Insert(map, DebugFormat(hints[1]), hints[1])

\* The inner loop, lines 68-70: every hint of the instruction registered
\* under its Debug text.
RECURSIVE RegisterHints(_, _, _)
RegisterHints(map, hints, i) ==
    IF i > Len(hints)
    THEN map
    ELSE RegisterHints(Insert(map, DebugFormat(hints[i]), hints[i]), hints, i + 1)

\* An offset that advances past hinted instructions only.
AdvanceOffsetHintedOnly(offset, instruction) ==
    IF instruction.hints # << >> THEN offset + instruction.op_size ELSE offset

\* hint_offset += instruction.body.op_size(), line 77.
AdvanceOffset(offset, instruction) == offset + instruction.op_size

\* The indexer before its loop, lines 60-63.
IndexerStart ==
    /\ indexed = 0
    /\ hint_offset = 0
    /\ hints_dict = EmptyMap
    /\ string_to_hint = EmptyMap

IndexerIdle == instructions = << >> /\ IndexerStart

\* One iteration of the for loop, lines 65-78.
IndexInstruction ==
    /\ indexed < Len(instructions)
    /\ LET instruction == instructions[indexed + 1]
       IN  /\ IF instruction.hints # << >>
              THEN /\ string_to_hint' = RegisterHints(string_to_hint, instruction.hints, 1)
                   /\ hints_dict' =
                          Insert(hints_dict, hint_offset,
                                 [j \in DOMAIN instruction.hints |->
                                     HintToHintParams(instruction.hints[j])])
              ELSE UNCHANGED <<string_to_hint, hints_dict>>
           /\ hint_offset' = AdvanceOffset(hint_offset, instruction)
    /\ indexed' = indexed + 1
    /\ UNCHANGED <<instructions, units, scarb, fork>>

(***************************************************************************)
(* parse_scarb_config                                                      *)
(***************************************************************************)

\* serde_json::Value: strings (their text a sequence of tokens), a value
\* of another scalar type, and objects (tables).
StringValue(text) == [type |-> "String", str |-> text]
NumberValue == [type |-> "Number"]
ObjectValue(map) == [type |-> "Object", map |-> map]

\* Value::get(key): the member of an object, None for any other value.
ValueGet(value, key) ==
    IF value.type = "Object" /\ key \in DOMAIN value.map THEN {value.map[key]} ELSE {}

\* Value::as_str
AsStr(value) == IF value.type = "String" THEN {value.str} ELSE {}

\* The keys parse_scarb_config reads, and profile names.
Fields == {"url", "account", "accounts-file", "keystore"}
Profiles == {"myprofile", "mariusz", "url"}

\* The tables of properties named table: every field is missing, a string
\* (whose text names the table and the field) or not a string.
PropertyTables(table) ==
    { [f \in DOMAIN shape |->
          IF shape[f] = "String" THEN StringValue(<< table, f >>) ELSE NumberValue] :
      shape \in UNION { [present -> {"String", "Number"}] : present \in SUBSET Fields } }

\* The values of [tool.sncast]: a table of properties, with or without a
\* member myprofile that is a table of properties or a string; or a string.
ToolSncastValues ==
    { ObjectValue(top) : top \in PropertyTables("sncast") }
    \cup { ObjectValue([k \in DOMAIN top \cup {"myprofile"} |->
                           IF k = "myprofile" THEN member ELSE top[k]]) :
             top \in PropertyTables("sncast"),
             member \in { StringValue(<< "sncast", "myprofile" >>) }
                        \cup { ObjectValue(t) : t \in PropertyTables("myprofile") } }
    \cup { StringValue(<< "tool", "sncast" >>) }

\* PackageMetadata: manifest_metadata.tool is None or a map of tool names.
PackageMetadatas ==
    { [manifest_metadata |-> [tool |-> tool]] :
        tool \in { {} } \cup { { EmptyMap } }
                 \cup { { [k \in {"other"} |-> NumberValue] } }
                 \cup { { [k \in {"sncast"} |-> v] } : v \in ToolSncastValues } }

\* CastConfig::default(): empty strings and paths.
CastConfigDefault ==
    [rpc_url |-> << >>, account |-> << >>, accounts_file |-> << >>, keystore |-> << >>]

\* The error text of get_profile, line 41.
NoProfileText(profile_) == << "No field [tool.sncast.", profile_, "] found in package" >>

\* get_profile falling back to the [tool.sncast] table.
GetProfileFallback(tool_sncast, prof) == Ok(tool_sncast)

\* get_profile
GetProfile(tool_sncast, prof) ==
    IF prof = {}
    THEN Ok(tool_sncast)
    ELSE LET profile_ == CHOOSE x \in prof : TRUE
             member == ValueGet(tool_sncast, profile_)
         IN  IF member = {}
             THEN Err(NoProfileText(profile_))
             ELSE Ok(CHOOSE v \in member : TRUE)

\* get_property: tool.get(field).and_then(Value::as_str).map(T::from)
\* .unwrap_or_default()
GetProperty(tool, field) ==
    LET text == UNION { AsStr(v) : v \in ValueGet(tool, field) }
    IN  IF text = {} THEN << >> ELSE CHOOSE t \in text : TRUE

\* CastConfig::from_package_tool_sncast
FromPackageToolSncast(package_tool_sncast, prof) ==
    LET tool == GetProfile(package_tool_sncast, prof)
    IN  IF tool.tag = "Err"
        THEN tool
        ELSE Ok([rpc_url |-> GetProperty(tool.val, "url"),
                 account |-> GetProperty(tool.val, "account"),
                 accounts_file |-> GetProperty(tool.val, "accounts-file"),
                 keystore |-> GetProperty(tool.val, "keystore")])

\* get_package_tool_sncast
GetPackageToolSncast(package) ==
    IF package.manifest_metadata.tool = {}
    THEN Err(<< "No field [tool] found in package" >>)
    ELSE LET tool == CHOOSE t \in package.manifest_metadata.tool : TRUE
         IN  IF "sncast" \in DOMAIN tool
             THEN Ok(tool["sncast"])
             ELSE Err(<< "No field [tool.sncast] found in package" >>)

\* parse_scarb_config returning the error of get_package_tool_sncast.
ParseScarbConfigPropagating(prof, metadata) ==
    IF metadata = {}
    THEN Ok(CastConfigDefault)
    ELSE LET package_tool_sncast == GetPackageToolSncast(CHOOSE data \in metadata : TRUE)
         IN  IF package_tool_sncast.tag = "Ok"
             THEN FromPackageToolSncast(package_tool_sncast.val, prof)
             ELSE package_tool_sncast

\* parse_scarb_config
ParseScarbConfig(prof, metadata) ==
    IF metadata = {}
    THEN Ok(CastConfigDefault)
    ELSE LET package_tool_sncast == GetPackageToolSncast(CHOOSE data \in metadata : TRUE)
         IN  IF package_tool_sncast.tag = "Ok"
             THEN FromPackageToolSncast(package_tool_sncast.val, prof)
             ELSE Ok(CastConfigDefault)

ScarbIdle == profile = {} /\ package_metadata = {} /\ cast_config = None

\* The call of parse_scarb_config.
ParseConfig ==
    /\ cast_config = None
    /\ cast_config' = ParseScarbConfig(profile, package_metadata)
    /\ UNCHANGED <<profile, package_metadata, units, indexer, fork>>

(***************************************************************************)
(* The fork cache                                                          *)
(***************************************************************************)

\* Storage keys read from the fork, and what the network holds for each at
\* the pinned block.
ForkKeys == {"k1", "k2"}
NetValue(key) == << "value of", key >>

\* The fork state reader of the unit's run.
ForkReader(u) == CHOOSE r \in state_reader[u].fork_state_reader : TRUE

\* The cache is keyed by remote endpoint, block and key.
EntryId(reader, key) == << reader.url, reader.block_id, key >>

\* The entries the reader finds in its cache directory (none for a reader
\* without one).
CacheOf(reader) ==
    IF reader.cache_dir \in DOMAIN fork_cache THEN fork_cache[reader.cache_dir] ELSE EmptyMap

ForkIdle ==
    /\ fork_cache = EmptyMap
    /\ net_lookups = [k \in ForkKeys |-> 0]
    /\ fork_pc = [u \in Units |-> "idle"]
    /\ fork_key = [u \in Units |-> "k1"]
    /\ read_log = [u \in Units |-> << >>]

\* A read arrives at the unit's fork reader: the cache is read first; a
\* hit is the read's value, a miss sends the reader to the network.
ForkRead(u, key) ==
    /\ fork_pc[u] = "idle"
    /\ Len(read_log[u]) < MaxForkReads
    /\ fork_key' = [fork_key EXCEPT ![u] = key]
    /\ LET entries == CacheOf(ForkReader(u))
           id == EntryId(ForkReader(u), key)
       IN  IF id \in DOMAIN entries
           THEN /\ read_log' = [read_log EXCEPT ![u] =
                                   Append(@, [key |-> key, value |-> entries[id],
                                              network |-> FALSE])]
                /\ UNCHANGED fork_pc
           ELSE /\ fork_pc' = [fork_pc EXCEPT ![u] = "miss"]
                /\ UNCHANGED read_log
    /\ UNCHANGED <<fork_cache, net_lookups, units, indexer, scarb>>

\* The lookup against the remote network at the pinned block.
ForkFetch(u) ==
    /\ fork_pc[u] = "miss"
    /\ net_lookups' = [net_lookups EXCEPT ![fork_key[u]] = @ + 1]
    /\ fork_pc' = [fork_pc EXCEPT ![u] = "fetched"]
    /\ UNCHANGED <<fork_cache, fork_key, read_log, units, indexer, scarb>>

\* The fetched value is memoized in the cache directory and returned.
ForkMemoize(u) ==
    /\ fork_pc[u] = "fetched"
    /\ LET reader == ForkReader(u)
           value == NetValue(fork_key[u])
       IN  /\ fork_cache' =
                  IF reader.cache_dir \in DOMAIN fork_cache
                  THEN [fork_cache EXCEPT ![reader.cache_dir] =
                           Insert(@, EntryId(reader, fork_key[u]), value)]
                  ELSE fork_cache
           /\ read_log' = [read_log EXCEPT ![u] =
                              Append(@, [key |-> fork_key[u], value |-> value,
                                         network |-> TRUE])]
    /\ fork_pc' = [fork_pc EXCEPT ![u] = "idle"]
    /\ UNCHANGED <<net_lookups, fork_key, units, indexer, scarb>>

(***************************************************************************)
(* The work units, run_test and run_fuzz_test                              *)
(***************************************************************************)

\* The argument vector of the call of run_test_case: vec![] in run_test
\* (line 98), args.clone() in run_fuzz_test (line 137).
RunArgs(u) == IF kind[u] = "test" THEN << >> ELSE args[u]

\* A summary that always carries an empty argument list.
SummaryArgsEmpty(u) == << >>

\* The argument vector handed to extract_test_case_summary: vec![] in
\* run_test (line 113), args in run_fuzz_test (line 152).
SummaryArgs(u) == IF kind[u] = "test" THEN << >> ELSE args[u]

\* A unit without its first checkpoint.
FirstCheckpointOmitted(u) == FALSE

\* A first checkpoint that reads send only, in both kinds of unit.
FirstCheckpointSendOnly(u) == send_closed

\* The first checkpoint: send.is_closed(), and for a fuzz trial
\* send.is_closed() | fuzzing_send.is_closed().
FirstCheckpoint(u) ==
    IF kind[u] = "fuzz" THEN send_closed \/ fuzzing_send_closed ELSE send_closed

\* A second checkpoint written like the first one of run_fuzz_test.
SecondCheckpointLikeFirst(u) ==
    IF kind[u] = "fuzz" THEN send_closed \/ fuzzing_send_closed ELSE send_closed

\* A second checkpoint that reads the fuzzing signal in place of send.
SecondCheckpointFuzzingOnly(u) == fuzzing_send_closed

\* A unit without its second checkpoint.
SecondCheckpointOmitted(u) == FALSE

\* The second checkpoint: send.is_closed() in both kinds of unit.
SecondCheckpoint(u) == send_closed

Init ==
    /\ casm_program \in Programs
    /\ defect \in Defects
    /\ (defect # "None" => casm_program = [hints |-> << >>, ending |-> "Return"])
    /\ kind \in [Units -> {"test", "fuzz"}]
    /\ args \in [Units -> {<< >>} \cup FuzzArgs]
    /\ \A u \in Units : (kind[u] = "test") <=> (args[u] = << >>)
    /\ case \in [Units -> UNION { Cases(u) : u \in Units }]
    /\ \A u \in Units : case[u].name = u
    /\ \A u, v \in Units : u < v => InputRank(kind[u], case[u]) <= InputRank(kind[v], case[v])
    /\ send_closed = FALSE
    /\ fuzzing_send_closed = FALSE
    /\ cancel_pc = [u \in Units |-> "open"]
    /\ pc = [u \in Units |-> "spawned"]
    /\ reads = [u \in Units |-> << >>]
    /\ run_test_case_args = [u \in Units |-> {}]
    /\ trace = [u \in Units |-> << >>]
    /\ state_reader = [u \in Units |-> None]
    /\ block_info = [u \in Units |-> None]
    /\ resources = [u \in Units |-> 0]
    /\ state_diff = [u \in Units |-> 0]
    /\ cheatnet_state = [u \in Units |-> 0]
    /\ hint_log = [u \in Units |-> << >>]
    /\ run_result = [u \in Units |-> None]
    /\ outcome = [u \in Units |-> None]
    /\ IndexerIdle
    /\ ScarbIdle
    /\ ForkIdle

\* The closure starts: the first checkpoint, lines 94-96 and 132-134.
Check1(u) ==
    /\ pc[u] = "spawned"
    /\ reads' = [reads EXCEPT ![u] = Append(@, [point |-> "before", closed |-> send_closed])]
    /\ IF FirstCheckpoint(u)
       THEN /\ outcome' = [outcome EXCEPT ![u] = Ok(Skipped)]
            /\ pc' = [pc EXCEPT ![u] = "done"]
       ELSE /\ pc' = [pc EXCEPT ![u] = "ready"]
            /\ UNCHANGED outcome
    /\ UNCHANGED <<inputs, signals, execution, apart>>

\* run_test_case, called between the two checkpoints.  A panic inside it
\* ends the closure at once; otherwise it returns its Result.
RunTestCase(u) ==
    /\ pc[u] = "ready"
    /\ \E net \in NetAnswers :
         LET s == RunTestCaseSetup(case[u], net)
             r == IF s.result.tag = "Err"
                  THEN [panic |-> {}, result |-> s.result, resources |-> 0, writes |-> 0,
                        cheats |-> 0, log |-> << >>, trace |-> << >>]
                  ELSE RunTestCaseRun(NewExecutionResources(u), NewCachedState(u), RunArgs(u),
                                      casm_program, defect, s.block_info.val)
         IN  /\ run_test_case_args' = [run_test_case_args EXCEPT ![u] = {RunArgs(u)}]
             /\ trace' = [trace EXCEPT ![u] = s.trace \o r.trace]
             /\ state_reader' = [state_reader EXCEPT ![u] = s.state_reader]
             /\ block_info' = [block_info EXCEPT ![u] = s.block_info]
             /\ resources' = [resources EXCEPT ![u] = r.resources]
             /\ state_diff' = [state_diff EXCEPT ![u] = r.writes]
             /\ cheatnet_state' = [cheatnet_state EXCEPT ![u] = r.cheats]
             /\ hint_log' = [hint_log EXCEPT ![u] = r.log]
             /\ run_result' = [run_result EXCEPT ![u] = r.result]
             /\ IF r.panic # {}
                THEN /\ outcome' = [outcome EXCEPT ![u] =
                                       Panicked(CHOOSE m \in r.panic : TRUE)]
                     /\ pc' = [pc EXCEPT ![u] = "done"]
                ELSE /\ pc' = [pc EXCEPT ![u] = "ran"]
                     /\ UNCHANGED outcome
    /\ UNCHANGED <<inputs, signals, reads, apart>>

\* After run_test_case returned: the second checkpoint, then
\* extract_test_case_summary; lines 109-113 and 148-152.
Check2(u) ==
    /\ pc[u] = "ran"
    /\ reads' = [reads EXCEPT ![u] = Append(@, [point |-> "after", closed |-> send_closed])]
    /\ outcome' = [outcome EXCEPT ![u] =
                      IF SecondCheckpoint(u)
                      THEN Ok(Skipped)
                      ELSE ExtractTestCaseSummary(run_result[u], case[u], SummaryArgs(u))]
    /\ pc' = [pc EXCEPT ![u] = "done"]
    /\ UNCHANGED <<inputs, signals, execution, apart>>

\* The receiver of send is dropped: the shared cancellation signal is set.
Cancel ==
    /\ ~send_closed
    /\ send_closed' = TRUE
    /\ cancel_pc' = pc
    /\ UNCHANGED <<inputs, fuzzing_send_closed, pc, reads, execution, outcome, apart>>

\* The receiver of fuzzing_send is dropped.
CancelFuzzing ==
    /\ ~fuzzing_send_closed
    /\ fuzzing_send_closed' = TRUE
    /\ UNCHANGED <<inputs, send_closed, cancel_pc, pc, reads, execution, outcome, apart>>

Next ==
    \/ \E u \in Units : Check1(u)
    \/ \E u \in Units : RunTestCase(u)
    \/ \E u \in Units : Check2(u)
    \/ Cancel
    \/ CancelFuzzing

Spec == Init /\ [][Next]_vars

\* The closure of a spawned unit is run by a thread of the blocking pool,
\* and the code of a checkpoint is straight-line: a unit at a checkpoint
\* goes on.  Nothing bounds run_test_case, whose VM run needs not end.
Fairness == \A u \in Units : WF_vars(Check1(u)) /\ WF_vars(Check2(u))

FairSpec == Init /\ [][Next]_vars /\ Fairness

\* The work units at rest, with the given fork configuration and state
\* readers.
UnitsAtRest(fork_config, readers) ==
    /\ casm_program = [hints |-> << >>, ending |-> "Return"]
    /\ defect = "None"
    /\ kind = [u \in Units |-> "test"]
    /\ args = [u \in Units |-> << >>]
    /\ case = [u \in Units |->
                  [name |-> u, available_gas |-> {}, fork_config |-> fork_config]]
    /\ send_closed = FALSE
    /\ fuzzing_send_closed = FALSE
    /\ cancel_pc = [u \in Units |-> "open"]
    /\ pc = [u \in Units |-> "unspawned"]
    /\ reads = [u \in Units |-> << >>]
    /\ run_test_case_args = [u \in Units |-> {}]
    /\ trace = [u \in Units |-> << >>]
    /\ state_reader = readers
    /\ block_info = [u \in Units |-> None]
    /\ resources = [u \in Units |-> 0]
    /\ state_diff = [u \in Units |-> 0]
    /\ cheatnet_state = [u \in Units |-> 0]
    /\ hint_log = [u \in Units |-> << >>]
    /\ run_result = [u \in Units |-> None]
    /\ outcome = [u \in Units |-> None]

\* No unit is spawned, nothing has run.
UnitsIdle == UnitsAtRest({}, [u \in Units |-> None])


\* build_hints_dict on its own, for every instruction stream up to the
\* bounds.
InitIndexer ==
    /\ UnitsIdle
    /\ instructions \in SeqsUpTo(Instructions, MaxInstructions)
    /\ IndexerStart
    /\ ScarbIdle
    /\ ForkIdle

NextIndexer == IndexInstruction

SpecIndexer == InitIndexer /\ [][NextIndexer]_vars

\* parse_scarb_config on its own, for every profile argument and package.
InitScarb ==
    /\ UnitsIdle
    /\ IndexerIdle
    /\ profile \in { {} } \cup { {p} : p \in Profiles }
    /\ package_metadata \in { {} } \cup { {m} : m \in PackageMetadatas }
    /\ cast_config = None
    /\ ForkIdle

NextScarb == ParseConfig

SpecScarb == InitScarb /\ [][NextScarb]_vars

\* The state readers run_test_case builds (lines 253-256) for units of one
\* fork configuration.
ForkedStateReaders(fork_config) ==
    [u \in Units |->
        [tag |-> "ExtendedStateReader",
         dict_state_reader |-> "build_testing_state",
         fork_state_reader |-> GetForkStateReader(WorkspaceRoot, fork_config)]]

\* The fork adapter on its own: the runs of the units of one fork send
\* reads to their fork state readers; the cache directory is empty or
\* holds entries of an earlier process.
InitFork ==
    /\ \E f \in ForkConfigs : UnitsAtRest({f}, ForkedStateReaders({f}))
    /\ IndexerIdle
    /\ ScarbIdle
    /\ \E warm \in SUBSET ForkKeys :
           fork_cache =
               [dir \in { << WorkspaceRoot, CacheDir >> } |->
                   [id \in { << f.url, f.block_number, k >> : f \in ForkConfigs, k \in warm }
                       |-> NetValue(id[3])]]
    /\ net_lookups = [k \in ForkKeys |-> 0]
    /\ fork_pc = [u \in Units |-> "idle"]
    /\ fork_key = [u \in Units |-> "k1"]
    /\ read_log = [u \in Units |-> << >>]

NextFork ==
    \/ \E u \in Units, key \in ForkKeys : ForkRead(u, key)
    \/ \E u \in Units : ForkFetch(u)
    \/ \E u \in Units : ForkMemoize(u)

SpecFork == InitFork /\ [][NextFork]_vars

(***************************************************************************)
(* Properties                                                              *)
(***************************************************************************)

Range(s) == { s[i] : i \in DOMAIN s }

\* run_test_case was entered.
ExecutorCalled(u) == trace[u] # << >> \/ run_result[u] # None

\* The executor left a side effect: a state reader was built (and asked
\* for its block info), the VM ran, or resources were accounted.
ExecutorSideEffects(u) ==
    \/ state_reader[u] # None
    \/ block_info[u] # None
    \/ Range(trace[u]) \cap {"StateReader", "Run", "Finalize", "Gas"} # {}
    \/ hint_log[u] # << >>
    \/ resources[u] # 0 \/ state_diff[u] # 0 \/ cheatnet_state[u] # 0

IsPanicked(o) == o.tag = "Panicked"

\* C1, as stated: whenever send is closed before the unit's VM run starts
\* (the unit had not yet entered run_test_case), the unit ends Skipped and
\* the executor has produced no side effects.  Stated for runs in which no
\* collaborator is defective, so that no panic is involved.
C1_SkippedNoEffectsIfCancelledBeforeVmRun ==
    \A u \in Units :
        (defect = "None" /\ pc[u] = "done" /\ cancel_pc[u] \in {"spawned", "ready"})
            => (outcome[u] = Ok(Skipped) /\ ~ExecutorSideEffects(u))

\* C1, amended: when send is closed before the unit's first checkpoint, the
\* unit ends Skipped and the executor never has any side effect; when it is
\* closed after the first checkpoint and before run_test_case, the executor
\* runs all the same and the unit ends Skipped at the second checkpoint,
\* unless run_test_case panicked.
C1_SkippedNoEffectsIfCancelledBeforeFirstCheckpoint ==
    \A u \in Units :
        /\ cancel_pc[u] = "spawned"
             => /\ ~ExecutorCalled(u) /\ ~ExecutorSideEffects(u)
                /\ pc[u] \in {"spawned", "done"}
                /\ (pc[u] = "done" => outcome[u] = Ok(Skipped))
        /\ (cancel_pc[u] = "ready" /\ pc[u] = "done")
             => /\ ExecutorCalled(u)
                /\ (outcome[u] = Ok(Skipped) \/ IsPanicked(outcome[u]))

\* C1's case: a unit cancelled before its first checkpoint has ended.
C1_Witness ==
    \E u \in Units :
        cancel_pc[u] = "spawned" /\ pc[u] = "done" /\ outcome[u] = Ok(Skipped)

\* What extract_test_case_summary makes of the unit's executor result.
Reported(u) == ExtractTestCaseSummary(run_result[u], case[u], args[u])

IsPassedOrFailed(o) == o.tag = "Ok" /\ o.val.tag \in {"Passed", "Failed"}

\* C2, as stated: whenever send is closed after run_test_case has returned
\* its result, the unit reports the Passed or Failed outcome of that result.
\* Stated for runs in which no collaborator is defective.
C2_ResultKeptIfCancelledAfterExecutor ==
    \A u \in Units :
        (defect = "None" /\ pc[u] = "done" /\ cancel_pc[u] \in {"ran", "done"}
            /\ run_result[u] # None)
            => (outcome[u] = Reported(u) /\ IsPassedOrFailed(outcome[u]))

\* C2, amended: when send is closed after the unit's second checkpoint, the
\* unit has reported the Passed or Failed outcome of its executor result and
\* keeps it; when send is closed after run_test_case returned and before the
\* second checkpoint, the unit ends Skipped and the result is dropped.
C2_ResultKeptIfCancelledAfterSecondCheckpoint ==
    \A u \in Units :
        /\ (cancel_pc[u] = "done" /\ run_result[u] # None)
             => (outcome[u] = Reported(u) /\ IsPassedOrFailed(outcome[u]))
        /\ (cancel_pc[u] = "ran" /\ pc[u] = "done") => outcome[u] = Ok(Skipped)

\* C2's case: send was closed after a unit had reported Passed or Failed.
C2_Witness ==
    \E u \in Units :
        cancel_pc[u] = "done" /\ run_result[u] # None /\ IsPassedOrFailed(outcome[u])

\* C3: a unit reads send.is_closed() at two points only, first before
\* run_test_case and then after it returned, never in between; a read that
\* finds it closed makes the unit return Ok(Skipped), at the first point
\* without any executor work and at the second without reporting the
\* executor's result.
C3_TwoCheckpoints ==
    \A u \in Units :
        /\ Len(reads[u]) <= 2
        /\ \A i \in DOMAIN reads[u] :
               reads[u][i].point = (IF i = 1 THEN "before" ELSE "after")
        /\ (pc[u] = "spawned") <=> (reads[u] = << >>)
        /\ ExecutorCalled(u) => (Len(reads[u]) >= 1 /\ ~reads[u][1].closed)
        /\ pc[u] \in {"ready", "ran"} => Len(reads[u]) = 1
        /\ Len(reads[u]) = 2 => (pc[u] = "done" /\ run_result[u] # None)
        /\ (Len(reads[u]) >= 1 /\ reads[u][1].closed)
             => (outcome[u] = Ok(Skipped) /\ ~ExecutorCalled(u) /\ Len(reads[u]) = 1)
        /\ (Len(reads[u]) = 2 /\ reads[u][2].closed) => outcome[u] = Ok(Skipped)
        /\ (Len(reads[u]) = 2 /\ ~reads[u][2].closed) => outcome[u] = Reported(u)

\* C3's case: a unit that ran the executor found send closed at its second
\* read and returned Ok(Skipped).
C3_Witness ==
    \E u \in Units :
        /\ Len(reads[u]) = 2 /\ reads[u][2].closed
        /\ run_result[u] # None /\ outcome[u] = Ok(Skipped)

\* The unit passed both checkpoints with send open, so that its result is
\* what extract_test_case_summary returned.
ReportedResult(u) == Len(reads[u]) = 2 /\ ~reads[u][2].closed

\* C4: for a test case with available_gas set, whatever the program, the
\* arguments and the fork configuration, run_test_case returns the error of
\* its ensure! before any other work, and the summary extracted from it is
\* Failed with that fixed text as its message.
C4_AvailableGasAlwaysFailed ==
    \A u \in Units :
        case[u].available_gas # {}
            => /\ ~ExecutorSideEffects(u)
               /\ run_result[u] \in {None, Err(AvailableGasMsg)}
               /\ pc[u] = "done"
                    => outcome[u] \in {Ok(Skipped), Ok(Failed(case[u].name, AvailableGasMsg, args[u]))}
               /\ ReportedResult(u)
                    => outcome[u] = Ok(Failed(case[u].name, AvailableGasMsg, args[u]))

\* C4's case: a unit with available_gas set and a fork configuration has
\* reported its summary.
C4_Witness ==
    \E u \in Units :
        /\ case[u].available_gas # {} /\ case[u].fork_config # {}
        /\ ReportedResult(u) /\ outcome[u].val.tag = "Failed"

\* The executor result of the unit is a recoverable failure: an error
\* returned by run_test_case, or a run that ended in a RunnerError.
RecoverableFailure(u) ==
    \/ run_result[u].tag = "Err"
    \/ run_result[u].tag = "Ok" /\ run_result[u].val.run_result.tag = "Err"

\* The text of that failure.
FailureText(u) ==
    IF run_result[u].tag = "Err" THEN run_result[u].err ELSE run_result[u].val.run_result.err.text

\* msg holds every token of text at its place, the hint error separator
\* possibly rewritten.
Carries(msg, text) ==
    \E k \in 0..(Len(msg) - Len(text)) :
        \A i \in DOMAIN text : text[i] = " Custom Hint Error: " \/ msg[k + i] = text[i]

UnitState(v) ==
    << pc[v], reads[v], run_test_case_args[v], trace[v], state_reader[v], block_info[v], resources[v],
       state_diff[v], cheatnet_state[v], hint_log[v], run_result[v], outcome[v] >>

C5_FailedWithDiagnostic ==
    \A u \in Units :
        (ReportedResult(u) /\ RecoverableFailure(u))
            => /\ outcome[u].tag = "Ok" /\ outcome[u].val.tag = "Failed"
               /\ outcome[u].val.name = case[u].name
               /\ outcome[u].val.arguments = args[u]
               /\ Carries(outcome[u].val.msg, FailureText(u))
               /\ FailureText(u) \in {AvailableGasMsg, ForkErrorText, BuildRunnerErrorText,
                                      UnknownHintText, VmFaultText}

C5_FailureStep(u) ==
    \/ run_result[u] = None /\ run_result'[u] # None /\ RecoverableFailure(u)'
    \/ outcome[u] = None /\ outcome'[u].tag = "Ok" /\ outcome'[u].val.tag = "Failed"

\* C5: a VM fault, a failing get_block_info of a fork reader or a failing
\* build_runner in a unit becomes the Failed summary of that unit, with the
\* unit's name and arguments and a message that carries the failure's text;
\* and the step in which a unit fails, or reports Failed, changes nothing of
\* any other unit nor of the shared signals.
C5_RecoverableFailureIsLocal ==
    /\ [] C5_FailedWithDiagnostic
    /\ [][ \A u \in Units :
             C5_FailureStep(u)
                 => /\ \A v \in Units \ {u} : UnitState(v)' = UnitState(v)
                    /\ UNCHANGED <<inputs, signals>> ]_vars

\* C5's case: one unit reported Failed for a failed fork read while its
\* sibling reported Passed.
C5_Witness ==
    \E u, v \in Units :
        /\ u # v
        /\ ReportedResult(u) /\ run_result[u] = Err(ForkErrorText)
        /\ outcome[u].val.tag = "Failed"
        /\ ReportedResult(v) /\ outcome[v].val.tag = "Passed"

\* A fatal invariant violation happened in the unit's executor: the
\* execution context was rejected, or finalize found program_base or
\* initial_fp missing after a run that reported success.
FatalViolation(u) ==
    \/ defect = "BuildContext" /\ "BuildContext" \in Range(trace[u])
    \/ defect \in {"ProgramBase", "InitialFp"} /\ "Finalize" \in Range(trace[u])

FatalText ==
    IF defect = "BuildContext" THEN ContextPanicText
    ELSE IF defect = "ProgramBase" THEN ProgramBasePanicText
    ELSE InitialFpPanicText

\* C6: a unit in whose executor a fatal invariant violation happened ends
\* in a panic, with no executor result and no summary at all; and
\* extract_test_case_summary returns an error, not a summary, for a run
\* result that is a RunnerError other than CairoRunError.
C6_FatalViolationIsNoSummary ==
    /\ \A u \in Units :
           FatalViolation(u)
               => /\ pc[u] = "done"
                  /\ outcome[u] = Panicked(FatalText)
                  /\ run_result[u] = None
    /\ \A u \in Units :
           \A variant \in {"BuildError", "FailedGasCalculation", "MissingMain"} :
               \A gas \in {0, 1} :
                   ExtractTestCaseSummary(
                       Ok([run_result |-> Err([variant |-> variant, text |-> << "e" >>]),
                           gas_used |-> gas]), case[u], args[u]).tag = "Err"

\* C6's case: finalize found program_base missing after a successful run.
C6_Witness ==
    \E u \in Units :
        /\ defect = "ProgramBase" /\ "Run" \in Range(trace[u])
        /\ outcome[u].tag = "Panicked"

\* The layers in the order Forge, CallToBlockifier, IO, Cheatable, Starknet.
LayerOrder ==
    << "ForgeExtension", "CallToBlockifierExtension", "IORuntimeExtension",
       "CheatableStarknetRuntimeExtension", "StarknetRuntime" >>

IsPrefix(s, t) == Len(s) <= Len(t) /\ \A i \in DOMAIN s : s[i] = t[i]

\* C7: every hint of a run enters the chain at the Forge layer and goes
\* inward through the layers in the fixed order, one layer after the other,
\* up to the first layer that recognises it; a hint that only the Starknet
\* syscall handler recognises reaches it through the four outer layers.
C7_HintsForwardedInward ==
    \A u \in Units :
        \A i \in DOMAIN hint_log[u] :
            LET e == hint_log[u][i]
            IN  /\ e.path # << >> /\ e.path[1] = "ForgeExtension"
                /\ IsPrefix(e.path, LayerOrder)
                /\ e.handler # "none"
                     => /\ e.handler = e.path[Len(e.path)]
                        /\ Recognizes(e.handler, e.hint)
                        /\ \A j \in 1..(Len(e.path) - 1) : ~Recognizes(e.path[j], e.hint)
                /\ e.handler = "none"
                     => /\ e.path = LayerOrder
                        /\ \A l \in Layers : ~Recognizes(l, e.hint)
                /\ e.hint = "StarknetRuntime"
                     => (e.path = LayerOrder /\ e.handler = "StarknetRuntime")

\* C7's case: a hint recognised by the innermost layer only was serviced.
C7_Witness ==
    \E u \in Units :
        \E i \in DOMAIN hint_log[u] :
            hint_log[u][i].hint = "StarknetRuntime" /\ hint_log[u][i].handler = "StarknetRuntime"

\* A hint of the unit's run was recognised by no layer.
UnrecognizedHint(u) == \E i \in DOMAIN hint_log[u] : hint_log[u][i].handler = "none"

\* C8: a run with a hint that no layer recognises ends the executor with
\* Ok(RunResultWithInfo) whose run_result is Err(RunnerError::CairoRunError)
\* of the hint error: the run is not finalized, no result is extracted, the
\* executor neither returns an error of its own nor panics, and the summary
\* reported for it is Failed with the formatted VM error.
C8_UnrecognizedHintIsCairoRunError ==
    \A u \in Units :
        UnrecognizedHint(u)
            => /\ run_result[u].tag = "Ok"
               /\ run_result[u].val.run_result = Err(CairoRunError(UnknownHintText))
               /\ Range(trace[u]) \cap {"Finalize", "ExtractResult"} = {}
               /\ ~IsPanicked(outcome[u])
               /\ ReportedResult(u)
                    => outcome[u] = Ok(Failed(case[u].name,
                                              FormatCairoRunError(UnknownHintText), args[u]))

\* C8's case: a unit reported the summary of a run with an unrecognised hint.
C8_Witness ==
    \E u \in Units : UnrecognizedHint(u) /\ ReportedResult(u)

\* run_test_case of the unit has returned or panicked.
ExecutorEnded(u) == ExecutorCalled(u) /\ pc[u] \in {"ran", "done"}

\* Two units ran the executor on the same arguments, the same attributes
\* of the test case and the same state snapshot (block info as read).
SameExecutorInputs(u, v) ==
    /\ args[u] = args[v]
    /\ case[u].available_gas = case[v].available_gas
    /\ case[u].fork_config = case[v].fork_config
    /\ block_info[u] = block_info[v]

SoloRun(u) ==
    LET s == RunTestCaseSetup(case[u], "Ok")
    IN  IF s.result.tag = "Err"
        THEN [panic |-> {}, result |-> s.result, resources |-> 0, writes |-> 0,
              cheats |-> 0, log |-> << >>, trace |-> s.trace]
        ELSE LET r == RunTestCaseRun(0, 0, args[u], casm_program, defect, s.block_info.val)
             IN  [r EXCEPT !.trace = s.trace \o r.trace]

C10_EqualsSoloRun ==
    \A u \in Units :
        (case[u].fork_config = {} /\ ExecutorEnded(u))
            => LET solo == SoloRun(u)
               IN  /\ run_result[u] = solo.result
                   /\ trace[u] = solo.trace
                   /\ resources[u] = solo.resources
                   /\ state_diff[u] = solo.writes
                   /\ cheatnet_state[u] = solo.cheats
                   /\ hint_log[u] = solo.log
                   /\ IsPanicked(outcome[u]) <=> solo.panic # {}
                   /\ ReportedResult(u)
                        => outcome[u] = ExtractTestCaseSummary(solo.result, case[u], args[u])

\* C10: no step changes the run-scoped state (state reader, block info,
\* resource counter, state overlay, cheat state, hint log, result) of two
\* units; and for a unit without fork configuration the executor's result,
\* its gas, its counters and the reported summary are those of the unit run
\* alone, in every interleaving with its siblings.
C10_UnitsIsolated ==
    /\ [] C10_EqualsSoloRun
    /\ [][ \A u, v \in Units :
             u # v => (UnitState(u)' = UnitState(u) \/ UnitState(v)' = UnitState(v)) ]_vars

\* C10's case: both units, without fork configuration, ran a program with
\* a syscall and a positive gas to their summaries.
C10_Witness ==
    \E u, v \in Units :
        /\ u # v
        /\ case[u].fork_config = {} /\ case[v].fork_config = {}
        /\ ReportedResult(u) /\ ReportedResult(v)
        /\ state_diff[u] > 0 /\ state_diff[v] > 0
        /\ outcome[u].val.tag = "Passed" /\ outcome[v].val.tag = "Passed"
        /\ outcome[u].val.gas > 0

(***************************************************************************)
(* Resource accounting, arguments and panics                               *)
(***************************************************************************)

\* The number of hints of the run that the layer serviced.
Serviced(u, layer) ==
    Cardinality({ i \in DOMAIN hint_log[u] : hint_log[u][i].handler = layer })

\* The VM's own usage of a run: the steps of the entry code (one per
\* argument), of the body (one per hint) and of the footer (two).
OwnResources(u) == Len(RunArgs(u)) + Len(hint_log[u]) + 2

\* What the handlers accounted during the run: nested calls and syscalls.
InnerResources(u) ==
    CalleeResources * Serviced(u, "CallToBlockifierExtension")
        + SyscallResources * Serviced(u, "StarknetRuntime")

\* C11: a run that finalize completed has in its resource counter the
\* VM's own usage once and the usage of every nested call once; a faulted
\* run, which is not finalized, has the handlers' usage alone; the gas is
\* computed from that counter; and for a successful program with exactly
\* one nested call the total is own resources plus callee resources.
C11_FinalizeAddsOwnResourcesOnce ==
    \A u \in Units :
        run_result[u].tag = "Ok"
            => /\ "Finalize" \in Range(trace[u])
                    => resources[u] = OwnResources(u) + InnerResources(u)
               /\ "Finalize" \notin Range(trace[u]) => resources[u] = InnerResources(u)
               /\ run_result[u].val.gas_used = resources[u] + StateDiffGas * state_diff[u]
               /\ ( /\ "Finalize" \in Range(trace[u])
                    /\ Serviced(u, "CallToBlockifierExtension") = 1
                    /\ Serviced(u, "StarknetRuntime") = 0 )
                    => /\ resources[u] = OwnResources(u) + CalleeResources
                       /\ run_result[u].val.gas_used = OwnResources(u) + CalleeResources

\* C11's case: a unit reported Passed for a program with one nested call,
\* with the gas of its own and its callee's resources.
C11_Witness ==
    \E u \in Units :
        /\ ReportedResult(u) /\ outcome[u].val.tag = "Passed"
        /\ Len(hint_log[u]) = 1 /\ Serviced(u, "CallToBlockifierExtension") = 1
        /\ outcome[u].val.gas = OwnResources(u) + CalleeResources

\* The program returned without panic: the run ended with a success value.
ReturnedSuccess(u) ==
    /\ run_result[u].tag = "Ok" /\ run_result[u].val.run_result.tag = "Ok"
    /\ run_result[u].val.run_result.val.tag = "Success"

\* C13: run_test calls the executor with an empty argument list and its
\* summary carries an empty argument list; run_fuzz_test calls it with the
\* trial's argument tuple and its Passed or Failed summary carries exactly
\* that tuple; and a program without parameters that returned without
\* panic, run by run_test without fork configuration, is reported Passed
\* with a gas value that is a natural number and an empty argument list.
C13_SummaryCarriesRunArguments ==
    \A u \in Units :
        /\ ExecutorCalled(u)
             => run_test_case_args[u] = { IF kind[u] = "test" THEN << >> ELSE args[u] }
        /\ (ReportedResult(u) /\ outcome[u].tag = "Ok")
             => /\ outcome[u].val.tag \in {"Passed", "Failed"}
                /\ run_test_case_args[u] = { outcome[u].val.arguments }
                /\ kind[u] = "test" => outcome[u].val.arguments = << >>
                /\ kind[u] = "fuzz" => outcome[u].val.arguments = args[u]
        /\ ( /\ ReportedResult(u) /\ kind[u] = "test" /\ case[u].fork_config = {}
             /\ ReturnedSuccess(u) )
             => /\ outcome[u].tag = "Ok" /\ outcome[u].val.tag = "Passed"
                /\ outcome[u].val.gas \in Nat
                /\ outcome[u].val.gas = run_result[u].val.gas_used
                /\ outcome[u].val.arguments = << >>
                /\ outcome[u].val.name = case[u].name

\* C13's case: a fuzz trial reported Failed and a test reported Passed,
\* each with the arguments it ran with.
C13_Witness ==
    \E u, v \in Units :
        /\ ReportedResult(u) /\ kind[u] = "fuzz" /\ outcome[u].val.tag = "Failed"
        /\ outcome[u].val.arguments = args[u] /\ args[u] # << >>
        /\ ReportedResult(v) /\ kind[v] = "test" /\ case[v].fork_config = {}
        /\ outcome[v].val.tag = "Passed" /\ outcome[v].val.arguments = << >>

\* The body of the unit's run panicked with the payload of 'call failed'.
PanickedCallFailed(u) ==
    /\ run_result[u].tag = "Ok" /\ run_result[u].val.run_result.tag = "Ok"
    /\ run_result[u].val.run_result.val = [tag |-> "Panic", data |-> PanicData]

\* C14: a run whose body ends in a panic has a panic value as its result,
\* never a success value, and is never reported Passed; a body that
\* panicked with the felt of 'call failed' is reported Failed with a message
\* that holds that felt with its decoded string, call failed.
C14_PanicReportedFailedWithDecodedPayload ==
    \A u \in Units :
        /\ (casm_program.ending = "Panic" /\ "ExtractResult" \in Range(trace[u]))
             => /\ PanickedCallFailed(u)
                /\ pc[u] = "done" => (outcome[u].tag = "Ok" /\ outcome[u].val.tag # "Passed")
        /\ (PanickedCallFailed(u) /\ ReportedResult(u))
             => /\ outcome[u].tag = "Ok" /\ outcome[u].val.tag = "Failed"
                /\ \E i \in 2..(Len(outcome[u].val.msg) - 1) :
                       outcome[u].val.msg[i] = << "0x63616c6c206661696c6564", "call failed" >>

\* C14's case: a unit reported the summary of a body that panicked.
C14_Witness ==
    \E u \in Units :
        PanickedCallFailed(u) /\ ReportedResult(u) /\ outcome[u].val.tag = "Failed"

(***************************************************************************)
(* Order of the executor's phases, cancellation latency                    *)
(***************************************************************************)

\* C17: the available_gas check is the first thing run_test_case does, and
\* when available_gas is set the executor returns the error of that check
\* having done nothing else: no entry code, no instruction stream, no hint
\* index, no state reader (so no fork reader and no network access), no
\* context, no VM run.
C17_AvailableGasCheckedFirst ==
    \A u \in Units :
        /\ ExecutorCalled(u) => (trace[u] # << >> /\ trace[u][1] = "Validate")
        /\ (case[u].available_gas # {} /\ ExecutorCalled(u))
             => /\ trace[u] = << "Validate" >>
                /\ run_result[u] = Err(AvailableGasMsg)
                /\ state_reader[u] = None /\ block_info[u] = None
                /\ hint_log[u] = << >>
                /\ resources[u] = 0 /\ state_diff[u] = 0 /\ cheatnet_state[u] = 0

\* C17's case: the executor returned for a case with available_gas set and
\* a fork configuration.
C17_Witness ==
    \E u \in Units :
        /\ case[u].available_gas # {} /\ case[u].fork_config # {}
        /\ pc[u] = "ran" /\ trace[u] = << "Validate" >> /\ run_result[u].tag = "Err"

\* The phases of one executor invocation, in their order.
Phases ==
    << "Validate", "BuildEntryCode", "AssembleStream", "IndexHints", "InitializeVM", "Run",
       "Finalize", "ExtractResult" >>

\* The place of each phase in that order.
PhaseRank ==
    [Validate |-> 1, BuildEntryCode |-> 2, AssembleStream |-> 3, IndexHints |-> 4,
     InitializeVM |-> 5, Run |-> 6, Finalize |-> 7, ExtractResult |-> 8]

IsPhase(p) == p \in DOMAIN PhaseRank

\* The phases of the unit's trace, without the steps in between them.
PhasesOf(u) == SelectSeq(trace[u], IsPhase)

Occurrences(seq, x) == Cardinality({ i \in DOMAIN seq : seq[i] = x })

\* The VM run of the unit ended in an error.
RunFaulted(u) ==
    "Run" \in Range(trace[u]) /\ (casm_program.ending = "VmFault" \/ UnrecognizedHint(u))

C18_PhasesInOrder ==
    \A u \in Units :
        LET steps == Range(trace[u])
            phases == PhasesOf(u)
        IN  trace[u] # << >>
              => /\ \A i \in 1..(Len(phases) - 1) :
                      PhaseRank[phases[i]] < PhaseRank[phases[i + 1]]
                 /\ Cardinality(steps) = Len(trace[u])
                 /\ "Run" \in steps => \A k \in 1..5 : Phases[k] \in steps
                 /\ "Finalize" \in steps => ("Run" \in steps /\ ~RunFaulted(u))
                 /\ "ExtractResult" \in steps => "Finalize" \in steps
                 /\ RunFaulted(u)
                      => /\ steps \cap {"Finalize", "ExtractResult"} = {}
                         /\ run_result[u].tag = "Ok"
                         /\ run_result[u].val.run_result.tag = "Err"

\* C18: the phases of an executor invocation are performed in the order
\* Validate, BuildEntryCode, AssembleStream, IndexHints, InitializeVM, Run,
\* Finalize, ExtractResult, each at most once; Run needs the five phases
\* before it; Finalize and ExtractResult are performed only after a Run
\* that returned success and are left out when the Run faulted; and an
\* executor that has run for a unit is never run for it again.
C18_LinearPhasesNoRetry ==
    /\ [] C18_PhasesInOrder
    /\ [][ \A u \in Units : trace[u] # << >> => trace'[u] = trace[u] ]_vars

\* C18's case: a unit's executor went through all eight phases, with a
\* hint serviced during Run, and the unit reported its result.
C18_Witness ==
    \E u \in Units :
        /\ PhasesOf(u) = Phases /\ hint_log[u] # << >>
        /\ ReportedResult(u)

C19_SkippedOnceCancelled ==
    \A u \in Units :
        /\ Occurrences(trace[u], "Run") <= 1
        /\ cancel_pc[u] = "spawned"
             => /\ ~ExecutorCalled(u)
                /\ pc[u] = "done" => outcome[u] = Ok(Skipped)
        /\ (cancel_pc[u] \in {"ready", "ran"} /\ pc[u] = "done")
             => /\ ExecutorCalled(u)
                /\ IF FatalViolation(u)
                   THEN IsPanicked(outcome[u])
                   ELSE outcome[u] = Ok(Skipped)

\* C19: once send is closed, a unit that has not passed its first
\* checkpoint never starts the executor and ends Skipped; a unit that has
\* passed it ends Skipped after the one run it starts or has in flight
\* (a run that hits a fatal violation ends in its panic); no unit ever
\* performs a second VM run, and a unit whose run had returned when send
\* was closed starts no other.
C19_CancellationLatencyOneRun ==
    /\ [] C19_SkippedOnceCancelled
    /\ [][ \A u \in Units :
             (send_closed /\ pc[u] \in {"spawned", "ran", "done"}) => trace'[u] = trace[u] ]_vars

\* C19's case: send was closed while one unit had not passed its first
\* checkpoint and the other had passed it without having run; both ended
\* Skipped, the second after its VM run.
C19_Witness ==
    \E u, v \in Units :
        /\ cancel_pc[u] = "spawned" /\ pc[u] = "done" /\ outcome[u] = Ok(Skipped)
        /\ cancel_pc[v] = "ready" /\ pc[v] = "done" /\ outcome[v] = Ok(Skipped)
        /\ "Run" \in Range(trace[v])

(***************************************************************************)
(* The hint indexes                                                        *)
(***************************************************************************)

\* The sum of op_size of the first n instructions.
RECURSIVE SumOpSize(_)
SumOpSize(n) == IF n = 0 THEN 0 ELSE SumOpSize(n - 1) + instructions[n].op_size

\* The instructions consumed so far that carry at least one hint.
Hinted == { i \in 1..indexed : Len(instructions[i].hints) >= 1 }

\* C20: at every point of build_hints_dict's loop, and so when it returns,
\* the offset index has one key for each consumed instruction that carries
\* a hint and no other key; the key of instruction i is the sum of op_size
\* of the instructions before i, hinted or not; its value lists the hint
\* parameters of that instruction's hints in their order; the running
\* offset is the sum of op_size of the consumed instructions; and for an
\* empty instruction stream both indexes are empty.
C20_OffsetIndex ==
    /\ indexed \in 0..Len(instructions)
    /\ hint_offset = SumOpSize(indexed)
    /\ DOMAIN hints_dict = { SumOpSize(i - 1) : i \in Hinted }
    /\ Cardinality(DOMAIN hints_dict) = Cardinality(Hinted)
    /\ \A i \in Hinted :
           LET entry == hints_dict[SumOpSize(i - 1)]
           IN  /\ Len(entry) = Len(instructions[i].hints)
               /\ \A j \in DOMAIN entry :
                      entry[j].code = DebugFormat(instructions[i].hints[j])
    /\ Hinted = {} => (hints_dict = EmptyMap /\ string_to_hint = EmptyMap)
    /\ instructions = << >> => (hints_dict = EmptyMap /\ string_to_hint = EmptyMap)

\* C20's case: the loop has ended for a stream whose first instruction
\* has no hint and takes two words and whose second carries two hints.
C20_Witness ==
    /\ Len(instructions) = 2 /\ indexed = 2
    /\ instructions[1].hints = << >> /\ instructions[1].op_size = 2
    /\ Len(instructions[2].hints) = 2
    /\ DOMAIN hints_dict = {2}

\* The hints of the instructions consumed so far.
Registered == UNION { Range(instructions[i].hints) : i \in 1..indexed }

\* C21: at every point of build_hints_dict's loop, and so when it returns,
\* every hint parameter stored in the offset index, whichever instruction
\* and position it stands at, carries a code that is a key of the identity
\* index, and the payload under that key is the hint the parameter was
\* made from; the identity index holds one entry per distinct hint
\* consumed and no other, so two different hints never share an entry.
C21_OffsetIndexResolvable ==
    /\ \A i \in Hinted :
           LET entry == hints_dict[SumOpSize(i - 1)]
           IN  \A j \in DOMAIN entry :
                   /\ entry[j].code \in DOMAIN string_to_hint
                   /\ string_to_hint[entry[j].code] = instructions[i].hints[j]
                   /\ HintToHintParams(string_to_hint[entry[j].code]) = entry[j]
    /\ DOMAIN string_to_hint = { DebugFormat(hint) : hint \in Registered }
    /\ \A hint \in Registered : string_to_hint[DebugFormat(hint)] = hint
    /\ \A h1, h2 \in Registered : h1 # h2 => DebugFormat(h1) # DebugFormat(h2)
    /\ Cardinality(DOMAIN string_to_hint) = Cardinality(Registered)

\* C21's case: the loop has ended for a stream whose first instruction
\* carries two different hints and whose second carries one of them again.
C21_Witness ==
    /\ Len(instructions) = 2 /\ indexed = 2
    /\ Len(instructions[1].hints) = 2
    /\ instructions[1].hints[1] # instructions[1].hints[2]
    /\ instructions[2].hints = << instructions[1].hints[2] >>
    /\ Cardinality(DOMAIN hints_dict) = 2
    /\ Cardinality(DOMAIN string_to_hint) = 2

(***************************************************************************)
(* The state-reader variant                                                *)
(***************************************************************************)

\* The run of the unit has a fork state reader.
HasForkReader(u) ==
    state_reader[u] # None /\ state_reader[u].fork_state_reader # {}

\* C22 as stated: every run of the executor has a fork state reader if
\* and only if the case has a fork configuration.
C22_ForkReaderIffForkConfig ==
    \A u \in Units :
        ExecutorCalled(u) => (HasForkReader(u) <=> case[u].fork_config # {})

\* C22, amended: a run builds its state reader exactly when the case passes
\* the available_gas check, and a run rejected there has no state reader,
\* fork configuration or not.  The state reader of a run always holds the
\* local default dataset; it holds a fork reader if and only if the case
\* has a fork configuration, and that reader is pinned to the configured
\* URL and block number with its cache under workspace_root/CACHE_DIR.  A
\* fork reader never exists without fork configuration, and then the block
\* info is the default one.
C22_ForkConfigDecidesVariant ==
    \A u \in Units :
        /\ state_reader[u] # None <=> (ExecutorCalled(u) /\ case[u].available_gas = {})
        /\ HasForkReader(u) => case[u].fork_config # {}
        /\ state_reader[u] # None
             => /\ state_reader[u].dict_state_reader = "build_testing_state"
                /\ state_reader[u].fork_state_reader =
                       { [url |-> f.url, block_id |-> f.block_number,
                          cache_dir |-> << WorkspaceRoot, CacheDir >>] :
                         f \in case[u].fork_config }
                /\ Cardinality(state_reader[u].fork_state_reader)
                       = Cardinality(case[u].fork_config)
                /\ case[u].fork_config = {} => block_info[u] = Ok([source |-> "default"])

\* C22's case: one unit ran with a fork configuration and has its fork
\* reader, its sibling ran without one and read the default dataset.
C22_Witness ==
    \E u, v \in Units :
        /\ case[u].fork_config # {} /\ HasForkReader(u)
        /\ ForkReader(u).cache_dir = << WorkspaceRoot, CacheDir >>
        /\ case[v].fork_config = {} /\ state_reader[v] # None /\ ~HasForkReader(v)
        /\ block_info[v] = Ok([source |-> "default"])

(***************************************************************************)
(* The checkpoints of a fuzz trial                                         *)
(***************************************************************************)

\* The unit leaves its first checkpoint in this step.
LeavesFirstCheckpoint(u) == pc[u] = "spawned" /\ pc'[u] # "spawned"

\* The unit leaves its second checkpoint in this step.
LeavesSecondCheckpoint(u) == pc[u] = "ran" /\ pc'[u] # "ran"

\* C23: a fuzz trial is skipped at its first checkpoint, without the
\* executor being called, exactly when send or fuzzing_send is closed at
\* that moment; at its second checkpoint it is skipped exactly when send is
\* closed, so a trial that finds fuzzing_send closed and send open there
\* reports the summary extracted from its run (Passed or Failed when it is
\* a summary), never Skipped.
C23_FuzzCheckpoints ==
    [][ \A u \in Units :
            kind[u] = "fuzz"
              => /\ LeavesFirstCheckpoint(u)
                      => IF send_closed \/ fuzzing_send_closed
                         THEN /\ pc'[u] = "done" /\ outcome'[u] = Ok(Skipped)
                              /\ ~ExecutorCalled(u)'
                         ELSE pc'[u] = "ready" /\ outcome'[u] = None
                 /\ LeavesSecondCheckpoint(u)
                      => IF send_closed
                         THEN outcome'[u] = Ok(Skipped)
                         ELSE /\ outcome'[u]
                                   = ExtractTestCaseSummary(run_result[u], case[u], args[u])
                              /\ outcome'[u] # Ok(Skipped)
                              /\ outcome'[u].tag = "Ok"
                                   => outcome'[u].val.tag \in {"Passed", "Failed"} ]_vars

\* C23's case: a fuzz trial whose run returned success ended with
\* fuzzing_send closed and send open, and reported Passed.
C23_Witness ==
    \E u \in Units :
        /\ kind[u] = "fuzz" /\ pc[u] = "done"
        /\ fuzzing_send_closed /\ ~send_closed
        /\ ReturnedSuccess(u)
        /\ outcome[u].tag = "Ok" /\ outcome[u].val.tag = "Passed"

(***************************************************************************)
(* Termination of a unit                                                   *)
(***************************************************************************)

\* A unit has a result exactly when its closure has ended; a result that
\* is a summary is Skipped, Passed or Failed; a unit inside run_test_case
\* has none.
C24_ResultShape ==
    \A u \in Units :
        /\ outcome[u] # None <=> pc[u] = "done"
        /\ outcome[u].tag \in {"None", "Ok", "Err", "Panicked"}
        /\ outcome[u].tag = "Ok" => outcome[u].val.tag \in {"Skipped", "Passed", "Failed"}
        /\ pc[u] = "ready" => outcome[u] = None

\* The order of a closure's positions.
PcSteps ==
    { << "spawned", "ready" >>, << "spawned", "done" >>, << "ready", "ran" >>,
      << "ready", "done" >>, << "ran", "done" >> }

\* C24: the positions of a unit's closure only advance, a unit inside
\* run_test_case leaves it by the return of run_test_case only, whatever
\* happens to the signals, and a result, once produced, is never replaced;
\* a unit has a result exactly when its closure has ended, and a result
\* that is a summary is Skipped, Passed or Failed.  Every unit is in the
\* end either inside run_test_case forever, without a result, or ended
\* with its one result forever: it is never left anywhere else.
C24_OneResultUnlessHung ==
    /\ [] C24_ResultShape
    /\ [][ \A u \in Units :
              /\ outcome[u] # None => (outcome'[u] = outcome[u] /\ pc'[u] = pc[u])
              /\ pc'[u] # pc[u] => << pc[u], pc'[u] >> \in PcSteps
              /\ (pc[u] = "ready" /\ pc'[u] # "ready") => ExecutorCalled(u)' ]_vars
    /\ \A u \in Units : <>[](pc[u] \in {"done", "ready"})

\* C24's case: both units have ended, one with a Passed summary after its
\* VM run returned, the other one Failed.
C24_Witness ==
    \E u, v \in Units :
        /\ pc[u] = "done" /\ pc[v] = "done"
        /\ "Run" \in Range(trace[u]) /\ outcome[u].tag = "Ok" /\ outcome[u].val.tag = "Passed"
        /\ outcome[v].tag = "Ok" /\ outcome[v].val.tag = "Failed"

(***************************************************************************)
(* The bail branch of extract_test_case_summary                            *)
(***************************************************************************)

\* run_test_case returned Ok(RunResultWithInfo) with an Err run_result.
ReturnedRunError(u) ==
    run_result[u].tag = "Ok" /\ run_result[u].val.run_result.tag = "Err"

\* C25: an Err run_result inside what run_test_case returns is always
\* RunnerError::CairoRunError; extract_test_case_summary applied to what
\* run_test_case returned, with either argument list, is Ok(summary); so
\* no unit ever ends with the Err of the bail branch, and a unit that
\* called extract_test_case_summary ends with Ok(Passed) or Ok(Failed).
C25_BailBranchUnreachable ==
    \A u \in Units :
        /\ ReturnedRunError(u)
             => run_result[u].val.run_result.err.variant = "CairoRunError"
        /\ run_result[u] # None
             => /\ ExtractTestCaseSummary(run_result[u], case[u], SummaryArgs(u)).tag = "Ok"
                /\ ExtractTestCaseSummary(run_result[u], case[u], << >>).tag = "Ok"
        /\ outcome[u].tag # "Err"
        /\ (pc[u] = "done" /\ ReportedResult(u))
             => /\ outcome[u].tag = "Ok"
                /\ outcome[u].val.tag \in {"Passed", "Failed"}

\* C25's case: a unit whose VM run ended in an error called
\* extract_test_case_summary and ended Failed.
C25_Witness ==
    \E u \in Units :
        /\ ReturnedRunError(u) /\ pc[u] = "done" /\ ReportedResult(u)
        /\ outcome[u].tag = "Ok" /\ outcome[u].val.tag = "Failed"

(***************************************************************************)
(* The sncast configuration                                                *)
(***************************************************************************)

\* The [tool.sncast] value of the package, when there is one.
ToolSncast ==
    { tool["sncast"] : tool \in { t \in UNION { m.manifest_metadata.tool :
                                                   m \in package_metadata } :
                                    "sncast" \in DOMAIN t } }

\* The keys of a value: the members of a table, none for another value.
KeysOf(value) == IF value.type = "Object" THEN DOMAIN value.map ELSE {}

\* The Scarb.toml key of each field of CastConfig.
ConfigKey ==
    [rpc_url |-> "url", account |-> "account", accounts_file |-> "accounts-file",
     keystore |-> "keystore"]

\* The config holds, for each field, the string the table gives its key,
\* and the empty default when the key is missing or not a string.
ReadFrom(config, table) ==
    \A field \in DOMAIN ConfigKey :
        LET key == ConfigKey[field]
        IN  IF key \in KeysOf(table) /\ table.map[key].type = "String"
            THEN config[field] = table.map[key].str
            ELSE config[field] = << >>

\* C15: for a package with a [tool.sncast] value, parse_scarb_config with
\* a profile that is not a key of it returns the error with the text
\* No field [tool.sncast.<profile>] found in package; with a profile that
\* is a key it returns the config read from that member; without a profile
\* it returns the config read from [tool.sncast] itself.
C15_ProfileSelectsTable ==
    \A tool_sncast \in ToolSncast :
        cast_config # None
            => /\ \A p \in profile :
                      IF p \in KeysOf(tool_sncast)
                      THEN /\ cast_config.tag = "Ok"
                           /\ ReadFrom(cast_config.val, tool_sncast.map[p])
                      ELSE /\ cast_config.tag = "Err"
                           /\ cast_config.err
                                = << "No field [tool.sncast.", p, "] found in package" >>
               /\ profile = {}
                    => (cast_config.tag = "Ok" /\ ReadFrom(cast_config.val, tool_sncast))

\* C15's case: the profile mariusz was asked of a package whose
\* [tool.sncast] has the profile myprofile only.
C15_Witness ==
    /\ profile = {"mariusz"} /\ cast_config # None /\ cast_config.tag = "Err"
    /\ \E tool_sncast \in ToolSncast : "myprofile" \in KeysOf(tool_sncast)

\* The table parse_scarb_config reads the fields from, when it reads any.
SelectedTable ==
    { t \in ToolSncast : profile = {} }
    \cup { t.map[p] : t \in { x \in ToolSncast : profile \cap KeysOf(x) # {} }, p \in profile }

\* C16: parse_scarb_config returns Ok with the default CastConfig when
\* there is no package metadata, no [tool] table or no [tool.sncast] in
\* it, whatever the profile; its one error is that of a profile that is
\* not a key of [tool.sncast]; and of the table it reads, a field that is
\* missing or not a string is the empty default while every other field
\* is the configured string.
C16_AbsentConfigurationIsDefault ==
    cast_config # None
        => /\ ToolSncast = {} => cast_config = Ok(CastConfigDefault)
           /\ cast_config.tag = "Err"
                <=> \E t \in ToolSncast : \E p \in profile : p \notin KeysOf(t)
           /\ \A table \in SelectedTable :
                  /\ cast_config.tag = "Ok"
                  /\ \A field \in DOMAIN ConfigKey :
                         LET key == ConfigKey[field]
                             configured ==
                                 key \in KeysOf(table) /\ table.map[key].type = "String"
                         IN  /\ ~configured => cast_config.val[field] = << >>
                             /\ configured
                                  => /\ cast_config.val[field] = table.map[key].str
                                     /\ cast_config.val[field] # << >>

\* C16's case: without a profile, a [tool.sncast] table with a url and
\* without an account gave a config with that url and an empty account.
C16_Witness ==
    /\ profile = {} /\ cast_config # None /\ cast_config.tag = "Ok"
    /\ \E t \in ToolSncast :
           /\ "account" \notin KeysOf(t) /\ "url" \in KeysOf(t)
           /\ cast_config.val.rpc_url = << "sncast", "url" >>
           /\ cast_config.val.account = << >>

(***************************************************************************)
(* The fork cache round trip                                               *)
(***************************************************************************)

\* The reads of the key the unit has completed, and those that went to
\* the network.
ReadsOf(u, key) == { i \in DOMAIN read_log[u] : read_log[u][i].key = key }
NetworkReadsOf(u, key) == { i \in ReadsOf(u, key) : read_log[u][i].network }

\* The unit has a lookup of the key behind it whose read is not completed.
FetchedInFlight(u, key) == fork_pc[u] = "fetched" /\ fork_key[u] = key

\* The unit has sent a read of the key to its fork reader.
HasRead(u, key) ==
    ReadsOf(u, key) # {} \/ (fork_pc[u] # "idle" /\ fork_key[u] = key)

\* The entry of the key is in the cache directory of the units' fork.
Cached(key) ==
    \E u \in Units : EntryId(ForkReader(u), key) \in DOMAIN CacheOf(ForkReader(u))

\* Every completed read has the value the network holds for its key.
IdenticalValues ==
    \A u \in Units :
        \A i \in DOMAIN read_log[u] : read_log[u][i].value = NetValue(read_log[u][i].key)

\* C12, as stated: every read of a key yields the identical value; and the
\* reads of a key issue at most one network lookup in total, also when
\* several units of the fork read it: none when its entry was in the cache
\* from the start, exactly one for a cold cache.
C12_OneLookupPerKeyInTotal ==
    /\ IdenticalValues
    /\ \A key \in ForkKeys :
           /\ net_lookups[key] <= 1
           /\ (\E u \in Units : ReadsOf(u, key) # {})
                => (net_lookups[key] = 1 \/ (net_lookups[key] = 0 /\ Cached(key)))

C12_LookupsPerReader ==
    /\ IdenticalValues
    /\ \A key \in ForkKeys :
           /\ \A u \in Units :
                  /\ Cardinality(NetworkReadsOf(u, key)) + (IF FetchedInFlight(u, key) THEN 1 ELSE 0)
                       <= 1
                  /\ \A i \in NetworkReadsOf(u, key) : \A j \in ReadsOf(u, key) : i <= j
           /\ net_lookups[key]
                = Cardinality({ u \in Units :
                                  NetworkReadsOf(u, key) # {} \/ FetchedInFlight(u, key) })
           /\ net_lookups[key] > 0 => \A u \in Units : ReadsOf(u, key) # {} => Cached(key)
           /\ \A u \in Units :
                  (\A v \in Units \ {u} : ~HasRead(v, key))
                      => /\ net_lookups[key] <= 1
                         /\ (ReadsOf(u, key) # {} /\ net_lookups[key] = 0) => Cached(key)

\* C12, amended: every read yields the value the network holds for the
\* key; a read that finds the key's entry in the cache completes without a
\* network lookup, and no lookup is issued for a key but by a reader whose
\* own cache read missed; each unit issues at most one lookup per key, for
\* its first read of it; a key read by a single unit costs at most one
\* lookup, exactly one for a cold cache; units of the same fork that read a
\* cold key concurrently may each issue a lookup, one per unit at most.
C12_CacheRoundTrip ==
    /\ [] C12_LookupsPerReader
    /\ [][ \A u \in Units : \A key \in ForkKeys :
             /\ ( /\ Cached(key) /\ fork_pc[u] = "idle" /\ fork_key'[u] = key
                  /\ (fork_pc'[u] # "idle" \/ read_log'[u] # read_log[u]) )
                  => /\ fork_pc'[u] = "idle"
                     /\ net_lookups' = net_lookups
                     /\ Len(read_log'[u]) = Len(read_log[u]) + 1
                     /\ ~read_log'[u][Len(read_log'[u])].network
             /\ net_lookups'[key] > net_lookups[key]
                  => \E v \in Units : fork_pc[v] = "miss" /\ fork_key[v] = key ]_vars

\* C12's case: one unit read a cold key from the network and wrote its
\* entry; the other unit then read the key from the cache, the same value
\* with no lookup.
C12_Witness ==
    \E u, v \in Units :
        /\ u # v
        /\ NetworkReadsOf(u, "k1") # {}
        /\ ReadsOf(v, "k1") # {} /\ NetworkReadsOf(v, "k1") = {}
        /\ net_lookups["k1"] = 1
        /\ read_log[u][1].value = read_log[v][1].value

====
